---- MODULE Spec2Model ----
\* PN532 NFC reader component (esphome/components/pn532): the detection loop
\* (update/loop), the tag lifecycle operations (read/clean/format/erase/write)
\* and the MIFARE Classic sector accessor, at the level of link exchanges.
EXTENDS Integers, Sequences, FiniteSets, TLC

VARIABLES
    current_uid_,                 \* last seen UID (std::vector<uint8_t>)
    next_task_,                   \* READ / CLEAN / FORMAT / ERASE / WRITE
    next_task_continuous_,        \* continuous flag of the pending task
    next_task_message_to_write_,  \* message attached to a WRITE (NullMsg = nullptr)
    requested_read_,              \* a detection response is awaited
    status_warning,               \* the component's transient warning indicator
    resp_pending,                 \* link: an accepted command's response is unread
    component_state,              \* "constructed", "ready" or "failed" (mark_failed)
    armed,                        \* a caller armed a task and no UID was detected since
    detected,                     \* the UID the latest detection cycle reported (<<>>: none)
    since_clear,                  \* no UID was detected since a failed or empty cycle
    request,                      \* the latest caller's request not yet dispatched (history)
    last                          \* record of the handler that ran last (history)

vars == <<current_uid_, next_task_, next_task_continuous_,
          next_task_message_to_write_, requested_read_, status_warning,
          resp_pending, component_state, armed, detected, since_clear, request,
          last>>

\* ------------------------------------------------------------------ bounds
\* Exchanges of one handler are numbered 1, 2, ...; the environment may make
\* one of the first MaxFailPos fail.
MaxFailPos == 6
\* Encoded lengths of the short messages of the write/read round trip.
MaxSmallLen == 40
\* The longest TLV length found on a tag that the round trip reads back.
MaxReadLen == 320
\* Iterations of a block loop followed one by one (the 8-bit block counter
\* wraps after 189 data blocks).
MaxLoopBlocks == 200
\* A lifecycle routine run on its own: any subset of its first MaxOpFailPos
\* exchanges may fail.
MaxOpFailPos == 8

\* --------------------------------------------------------------- constants
BLOCK_SIZE == 16
TLV_NDEF == 3
TLV_TERMINATOR == 254
TLV_EXTENDED == 255
FIRST_DATA_BLOCK == 4
NUM_SECTORS == 16
NDEF_FORMAT_END == 64

Tasks == {"READ", "CLEAN", "FORMAT", "ERASE", "WRITE"}

\* ----------------------------------------------------------------- helpers
\* uint8_t arithmetic
U8(x) == x % 256

\* n copies of byte b
Fill(n, b) == [i \in 1..n |-> b]

\* s without its first n elements (all of it gone when n >= Len(s))
Drop(s, n) == IF n >= Len(s) THEN <<>> ELSE SubSeq(s, n + 1, Len(s))

\* ---------------------------------------------------------------- messages
\* An NDEF message is identified by the length n and a seed s of its encoding;
\* NullMsg stands for a null message pointer, EmptyRecordMsg for the message
\* with one empty record that erase_tag_ builds.
NullMsg == [kind |-> "null", n |-> 0, s |-> 0]
Msg(n, s) == [kind |-> "msg", n |-> n, s |-> s]
EmptyRecordMsg == [kind |-> "empty", n |-> 3, s |-> 0]

\* NdefMessage::encode(): the encoded bytes of a message (an empty record
\* encodes as D0 00 00)
encode(m) ==
    IF m.kind = "empty" THEN <<208, 0, 0>>
    ELSE [i \in 1..m.n |-> U8(m.s + 7 * i)]

\* ------------------------------------------------------------ nfc helpers
\* nfc::guess_tag_type: classification by UID length alone
guess_tag_type(uid_length) ==
    IF uid_length = 4 THEN "MIFARE_CLASSIC"
    ELSE IF uid_length = 7 THEN "TYPE_2"
    ELSE "UNKNOWN"

mifare_classic_is_first_block(block_num) == block_num % 4 = 0
mifare_classic_is_trailer_block(block_num) == (block_num + 1) % 4 = 0

\* length of the TLV header (type byte and length field) for a message length
tlv_header_len(message_length) == IF message_length < TLV_EXTENDED THEN 2 ELSE 4

\* nfc::get_buffer_size / get_mifare_classic_buffer_size: header, message and
\* terminator, rounded up to whole blocks
get_buffer_size(message_length) ==
    LET raw == tlv_header_len(message_length) + message_length + 1
    IN  ((raw + BLOCK_SIZE - 1) \div BLOCK_SIZE) * BLOCK_SIZE

\* nfc::decode_mifare_classic_tlv: [ok, message_length, message_start_index]
decode_mifare_classic_tlv(data) ==
    IF Len(data) < 4 \/ data[1] # TLV_NDEF
    THEN [ok |-> FALSE, message_length |-> 0, message_start_index |-> 0]
    ELSE IF data[2] # TLV_EXTENDED
    THEN [ok |-> TRUE, message_length |-> data[2], message_start_index |-> 2]
    ELSE [ok |-> TRUE, message_length |-> data[3] * 256 + data[4],
          message_start_index |-> 4]

\* --------------------------------------------------------------- the link
\* What the environment does to the exchanges of one tick: the exchanges
\* numbered in fails end with outcome kind, all others with "ok".
\*   "nosend"  write_command_ returns false (no valid acknowledgement)
\*   "noresp"  the command is acknowledged, read_response_ returns false
\*   "status"  a response is read whose status byte is not 0x00
FailKinds == {"nosend", "noresp", "status"}

Oracles ==
    {[fails |-> F, kind |-> k] :
        F \in {{}} \cup {{p} : p \in 1..MaxFailPos}, k \in FailKinds}

Outcome(orc, k) == IF k \in orc.fails THEN orc.kind ELSE "ok"

\* Whether a response is left unread on the link after an exchange:
\* write_command_ reads only the acknowledgement; read_response_, when it
\* succeeds, consumes the response; turn_off_rf_ never calls read_response_,
\* and update() leaves the detection response to the next loop().
PendAfter(cmd, res, pend) ==
    IF res = "nosend" THEN pend
    ELSE IF cmd \in {"rfoff", "detect"} THEN TRUE
    ELSE res = "noresp"

\* The log l with one more command sent on the link. env.p0 is resp_pending
\* when the first command of the log is sent.
Sent(env, l, cmd, block, key, data) ==
    LET res == Outcome(env.orc, Len(l) + 1)
        pend == IF l = <<>> THEN env.p0 ELSE l[Len(l)].after
    IN  Append(l, [cmd |-> cmd, block |-> block, key |-> key, res |-> res,
                   data |-> data, pend |-> pend,
                   after |-> PendAfter(cmd, res, pend)])

\* One command/response exchange, appended to the handler's exchange log.
\* (Here and below, "x \in {e}" names the value of e, computed once.)
Exchange(env, log, cmd, block, key, data) ==
    CHOOSE out \in {Sent(env, l, cmd, block, key, data) : l \in {log}} : TRUE

LastRes(log) == log[Len(log)].res

\* PN532::turn_off_rf_: the result of write_command_ is dropped
turn_off_rf_(env, log) == Exchange(env, log, "rfoff", 0, "", <<>>)

\* ------------------------------------------------------------ the tag
\* The presented tag's data blocks as one byte string laid over the
\* non-trailer blocks 4, 5, 6, 8, ...; bytes past its end read as 0.
DataIndex(block_num) == ((block_num \div 4) - 1) * 3 + (block_num % 4)

BlockData(img, block_num) ==
    IF block_num < FIRST_DATA_BLOCK \/ mifare_classic_is_trailer_block(block_num)
    THEN Fill(BLOCK_SIZE, 0)
    ELSE [i \in 1..BLOCK_SIZE |->
            LET p == DataIndex(block_num) * BLOCK_SIZE + i
            IN  IF p <= Len(img) THEN img[p] ELSE 0]

\* A well-formed TLV envelope around encoded bytes (3. DATA MODEL)
TlvLength(n) ==
    IF n < TLV_EXTENDED THEN <<n>>
    ELSE <<TLV_EXTENDED, (n \div 256) % 256, n % 256>>

NdefImage(enc) == <<TLV_NDEF>> \o TlvLength(Len(enc)) \o enc \o <<TLV_TERMINATOR>>

\* --------------------------------------------- MIFARE Classic sector accessor
\* PN532::auth_mifare_classic_block_
auth_mifare_classic_block_(env, log, uid, block_num, key) ==
    CHOOSE out \in
      {[ok |-> LastRes(l) = "ok", log |-> l] :
         l \in {Exchange(env, log, "auth", block_num, key, uid)}} : TRUE

\* PN532::read_mifare_classic_block_
read_mifare_classic_block_(env, log, block_num) ==
    CHOOSE out \in
      {IF LastRes(l) = "ok"
       THEN [ok |-> TRUE, data |-> BlockData(env.img, block_num),
             log |-> [l EXCEPT ![Len(l)].data = BlockData(env.img, block_num)]]
       ELSE [ok |-> FALSE, data |-> <<>>, log |-> l] :
         l \in {Exchange(env, log, "read", block_num, "", <<>>)}} : TRUE

\* PN532::write_mifare_classic_block_: the status byte is not looked at
write_mifare_classic_block_(env, log, block_num, write_data) ==
    CHOOSE out \in
      {[ok |-> LastRes(l) \in {"ok", "status"}, log |-> l] :
         l \in {Exchange(env, log, "write", block_num, "", write_data)}} : TRUE

\* variant of NextBlock: the trailer test made before the increment
NextBlock_test_first(current_block) ==
    IF mifare_classic_is_trailer_block(current_block)
    THEN U8(current_block + 2) ELSE U8(current_block + 1)

\* variant of NextBlock: the trailer block is not skipped
NextBlock_no_skip(current_block) == U8(current_block + 1)

\* current_block++ and the skip of a trailer block, on uint8_t
NextBlock(current_block) ==
    LET b == U8(current_block + 1)
    IN  IF mifare_classic_is_trailer_block(b) THEN U8(b + 1) ELSE b

\* ---------------------------------------------------- tag lifecycle: read
\* nfc::NfcTag as the constructors used build it: with three arguments the
\* tag carries an NDEF message made from the buffer.
BareTag(uid) ==
    [uid |-> uid, type |-> "UNKNOWN", has_ndef |-> FALSE, buffer |-> <<>>,
     ub |-> FALSE]
TypedTag(uid, type) ==
    [uid |-> uid, type |-> type, has_ndef |-> FALSE, buffer |-> <<>>,
     ub |-> FALSE]
\* buffer.erase(begin, begin + start): past the end of a shorter buffer the
\* erase is undefined; ub records that it happened, and what the tag then
\* carries is indeterminate (junk).
PayloadTag(uid, type, buffer, start, junk) ==
    [uid |-> uid, type |-> type, has_ndef |-> TRUE,
     buffer |-> IF start > Len(buffer) THEN Fill(junk % 3, junk)
                ELSE Drop(buffer, start),
     ub |-> start > Len(buffer)]

\* the block loop of read_tag_: a failed authentication or read is logged
\* and the loop goes on
RECURSIVE read_blocks(_, _, _, _, _, _, _)
read_blocks(env, log, uid, index, buffer_size, current_block, buffer) ==
    IF index >= buffer_size THEN [log |-> log, buffer |-> buffer]
    ELSE CHOOSE out \in
      {read_blocks(env, r.log, uid, index + BLOCK_SIZE, buffer_size,
                   NextBlock(current_block),
                   IF r.ok THEN buffer \o r.data ELSE buffer) :
         r \in {read_mifare_classic_block_(env,
                  IF mifare_classic_is_first_block(current_block)
                  THEN auth_mifare_classic_block_(env, log, uid,
                                                  current_block, "A_NDEF").log
                  ELSE log,
                  current_block)}} : TRUE

\* read_tag_ once block 4 is read: the TLV header, then the block loop
read_tag_tlv(env, r, uid) ==
    LET t == decode_mifare_classic_tlv(r.data)
    IN  IF ~t.ok THEN [tag |-> TypedTag(uid, "ERROR"), log |-> r.log]
        ELSE CHOOSE out \in
          {[tag |-> PayloadTag(uid, "MIFARE_CLASSIC", b.buffer,
                               t.message_start_index, env.junk),
            log |-> b.log] :
             b \in {read_blocks(env, r.log, uid, 0,
                                get_buffer_size(t.message_length),
                                FIRST_DATA_BLOCK, <<>>)}} : TRUE

\* read_tag_ once block 4 is authenticated
read_tag_payload(env, log, uid) ==
    CHOOSE out \in
      {IF ~r.ok THEN [tag |-> TypedTag(uid, "MIFARE_CLASSIC"), log |-> r.log]
       ELSE read_tag_tlv(env, r, uid) :
         r \in {read_mifare_classic_block_(env, log, FIRST_DATA_BLOCK)}} : TRUE

\* PN532::read_tag_: [tag, log]
read_tag_(env, log, uid) ==
    IF guess_tag_type(Len(uid)) # "MIFARE_CLASSIC"
    THEN [tag |-> BareTag(uid), log |-> log]
    ELSE CHOOSE out \in
      {IF ~a.ok THEN [tag |-> TypedTag(uid, "MIFARE_CLASSIC"), log |-> a.log]
       ELSE read_tag_payload(env, a.log, uid) :
         a \in {auth_mifare_classic_block_(env, log, uid, FIRST_DATA_BLOCK,
                                           "A_NDEF")}} : TRUE

\* What read_mifare_classic_block_(block_num, data) leaves in data when it
\* returns false: nothing when the command was not sent, the response with
\* its non-zero status byte, or whatever the failed read_response_ left.
FailedReadData(res, junk) ==
    CASE res = "nosend" -> <<>>
      [] res = "status" -> <<1>>
      [] OTHER -> Fill(junk % 3, junk)

\* read_mifare_classic_tag_ once block 4 is authenticated: the TLV header is
\* decoded when the read of block 4 FAILED (the test at line 16 is negated),
\* and a block that was read makes the routine return without payload
read_mifare_classic_tag_payload(env, log, uid) ==
    CHOOSE out \in
      {IF r.ok THEN [tag |-> TypedTag(uid, "MIFARE_CLASSIC"), log |-> r.log]
       ELSE read_tag_tlv(env,
              [r EXCEPT !.data = FailedReadData(LastRes(r.log), env.junk)],
              uid) :
         r \in {read_mifare_classic_block_(env, log, FIRST_DATA_BLOCK)}} : TRUE

\* PN532::read_mifare_classic_tag_: [tag, log]
read_mifare_classic_tag_(env, log, uid) ==
    CHOOSE out \in
      {IF ~a.ok THEN [tag |-> TypedTag(uid, "MIFARE_CLASSIC"), log |-> a.log]
       ELSE read_mifare_classic_tag_payload(env, a.log, uid) :
         a \in {auth_mifare_classic_block_(env, log, uid, FIRST_DATA_BLOCK,
                                           "A_NDEF")}} : TRUE

\* --------------------------------------------------- tag lifecycle: format
BlankBlock == Fill(BLOCK_SIZE, 0)
FactoryTrailer ==
    <<255, 255, 255, 255, 255, 255, 255, 7, 128, 105, 255, 255, 255, 255, 255, 255>>
EmptyNdefBlock == <<3, 3, 208, 0, 0, 254, 0, 0, 0, 0, 0, 0, 0, 0, 0, 0>>
MadBlock1 == <<20, 1, 3, 225, 3, 225, 3, 225, 3, 225, 3, 225, 3, 225, 3, 225>>
MadBlock2 == <<3, 225, 3, 225, 3, 225, 3, 225, 3, 225, 3, 225, 3, 225, 3, 225>>
MadTrailer ==
    <<160, 161, 162, 163, 164, 165, 120, 119, 136, 193, 255, 255, 255, 255, 255, 255>>
NdefTrailer ==
    <<211, 247, 211, 247, 211, 247, 127, 7, 136, 64, 255, 255, 255, 255, 255, 255>>

\* one authenticated sector of format_mifare_classic_mifare_: blocks
\* 4idx (not block 0), 4idx+1, 4idx+2 zeroed, then the trailer; [ok, log]
format_mifare_sector(env, log, idx) ==
    CHOOSE out \in
      {CHOOSE o1 \in
         {CHOOSE o2 \in
            {CHOOSE o3 \in
               {[ok |-> w0.ok /\ w1.ok /\ w2.ok /\ w3.ok, log |-> w3.log] :
                  w3 \in {write_mifare_classic_block_(env, w2.log,
                             4 * idx + 3, FactoryTrailer)}} : TRUE :
               w2 \in {write_mifare_classic_block_(env, w1.log, 4 * idx + 2,
                                                   BlankBlock)}} : TRUE :
            w1 \in {write_mifare_classic_block_(env, w0.log, 4 * idx + 1,
                                                BlankBlock)}} : TRUE :
         w0 \in {IF idx = 0 THEN [ok |-> TRUE, log |-> log]
                 ELSE write_mifare_classic_block_(env, log, 4 * idx,
                                                  BlankBlock)}} : TRUE

\* the sector loop of format_mifare_classic_mifare_: a sector that does not
\* authenticate is skipped
RECURSIVE format_mifare_sectors(_, _, _, _, _)

\* variant of format_mifare_sectors: a sector that does not authenticate
\* counts as an error
format_mifare_sectors_auth_error(env, log, uid, idx, error) ==
    IF idx >= NUM_SECTORS THEN [ok |-> ~error, log |-> log]
    ELSE CHOOSE out \in
      {IF ~a.ok THEN format_mifare_sectors(env, a.log, uid, idx + 1, TRUE)
       ELSE CHOOSE o1 \in
         {format_mifare_sectors(env, w.log, uid, idx + 1, error \/ ~w.ok) :
            w \in {format_mifare_sector(env, a.log, idx)}} : TRUE :
         a \in {auth_mifare_classic_block_(env, log, uid, 4 * idx + 3,
                                           "B_DEFAULT")}} : TRUE

format_mifare_sectors(env, log, uid, idx, error) ==
    IF idx >= NUM_SECTORS THEN [ok |-> ~error, log |-> log]
    ELSE CHOOSE out \in
      {IF ~a.ok THEN format_mifare_sectors(env, a.log, uid, idx + 1, error)
       ELSE CHOOSE o1 \in
         {format_mifare_sectors(env, w.log, uid, idx + 1, error \/ ~w.ok) :
            w \in {format_mifare_sector(env, a.log, idx)}} : TRUE :
         a \in {auth_mifare_classic_block_(env, log, uid, 4 * idx + 3,
                                           "B_DEFAULT")}} : TRUE

\* PN532::format_mifare_classic_mifare_
format_mifare_classic_mifare_(env, log, uid) ==
    format_mifare_sectors(env, log, uid, 0, FALSE)

\* one authenticated sector of format_mifare_classic_ndef_: the log after
\* its four writes, whose results are only logged
format_ndef_sector(env, log, i) ==
    write_mifare_classic_block_(env,
      write_mifare_classic_block_(env,
        write_mifare_classic_block_(env,
          write_mifare_classic_block_(env, log, i,
            IF i = 4 THEN EmptyNdefBlock ELSE BlankBlock).log,
          i + 1, BlankBlock).log,
        i + 2, BlankBlock).log,
      i + 3, NdefTrailer).log

\* the sector loop of format_mifare_classic_ndef_
RECURSIVE format_ndef_sectors(_, _, _, _)
format_ndef_sectors(env, log, uid, i) ==
    IF i >= NDEF_FORMAT_END THEN [ok |-> TRUE, log |-> log]
    ELSE CHOOSE out \in
      {format_ndef_sectors(env,
          IF a.ok THEN format_ndef_sector(env, a.log, i) ELSE a.log,
          uid, i + 4) :
         a \in {auth_mifare_classic_block_(env, log, uid, i, "B_DEFAULT")}}
      : TRUE

\* format_mifare_classic_ndef_ after sector 0 is authenticated: blocks 1, 2
\* and 3, each failure returning false
format_ndef_mad(env, log, uid) ==
    CHOOSE out \in
      {IF ~w1.ok THEN w1
       ELSE CHOOSE o1 \in
         {IF ~w2.ok THEN w2
          ELSE CHOOSE o2 \in
            {IF ~w3.ok THEN w3
             ELSE format_ndef_sectors(env, w3.log, uid, 4) :
               w3 \in {write_mifare_classic_block_(env, w2.log, 3,
                                                   MadTrailer)}} : TRUE :
            w2 \in {write_mifare_classic_block_(env, w1.log, 2, MadBlock2)}}
         : TRUE :
         w1 \in {write_mifare_classic_block_(env, log, 1, MadBlock1)}} : TRUE

\* PN532::format_mifare_classic_ndef_
format_mifare_classic_ndef_(env, log, uid) ==
    CHOOSE out \in
      {IF ~a.ok THEN a ELSE format_ndef_mad(env, a.log, uid) :
         a \in {auth_mifare_classic_block_(env, log, uid, 0, "B_DEFAULT")}}
      : TRUE

\* PN532::clean_tag_
clean_tag_(env, log, uid) ==
    IF guess_tag_type(Len(uid)) = "MIFARE_CLASSIC"
    THEN format_mifare_classic_mifare_(env, log, uid)
    ELSE [ok |-> FALSE, log |-> log]

\* PN532::format_tag_
format_tag_(env, log, uid) ==
    IF guess_tag_type(Len(uid)) = "MIFARE_CLASSIC"
    THEN format_mifare_classic_ndef_(env, log, uid)
    ELSE [ok |-> FALSE, log |-> log]

\* ---------------------------------------------------- tag lifecycle: write
\* The buffer write_tag_ builds from the encoded message. Each insert takes
\* encoded.size() as it is at that call: the short form stores the size after
\* the type byte went in, the long form inserts the high byte of the size at
\* offset 2 and then the low byte of the grown size at offset 2 again.
write_tag_buffer(encoded) ==
    LET n == Len(encoded)
    IN  IF n < TLV_EXTENDED
        THEN <<TLV_NDEF, U8(n + 1)>> \o encoded \o <<TLV_TERMINATOR>>
        ELSE <<TLV_NDEF, TLV_EXTENDED, U8(n + 3), ((n + 2) \div 256) % 256>>
                 \o encoded \o <<TLV_TERMINATOR>>

\* The buffer write_mifare_classic_tag_ builds: message_length is taken
\* before the inserts, and the buffer is resized to whole blocks with zeros.
write_mifare_classic_tag_buffer(encoded) ==
    LET message_length == Len(encoded)
        buffer_length == get_buffer_size(message_length)
        b == <<TLV_NDEF>>
               \o (IF message_length < TLV_EXTENDED THEN <<U8(message_length)>>
                   ELSE <<TLV_EXTENDED, (message_length \div 256) % 256,
                          message_length % 256>>)
               \o encoded \o <<TLV_TERMINATOR>>
    IN  [i \in 1..buffer_length |-> IF i <= Len(b) THEN b[i] ELSE 0]

\* std::vector<uint8_t> data(begin + index, begin + index + BLOCK_SIZE): the
\* bytes taken past the end of the buffer are indeterminate (junk).
BlockSlice(encoded, index, junk) ==
    [i \in 1..BLOCK_SIZE |->
        IF index + i <= Len(encoded) THEN encoded[index + i] ELSE junk]

\* the block loop of write_tag_ and of write_mifare_classic_tag_, after the
\* authentication a first block of a sector needs: [ok, log]
RECURSIVE write_blocks(_, _, _, _, _, _)

\* variant of write_block_at: the loop goes on after a failed write
write_block_at_continue(env, a, uid, encoded, index, current_block) ==
    IF ~a.ok THEN [ok |-> FALSE, log |-> a.log]
    ELSE CHOOSE out \in
      {write_blocks(env, w.log, uid, encoded, index + BLOCK_SIZE,
                    NextBlock(current_block)) :
         w \in {write_mifare_classic_block_(env, a.log, current_block,
                   BlockSlice(encoded, index, env.junk))}} : TRUE

write_block_at(env, a, uid, encoded, index, current_block) ==
    IF ~a.ok THEN [ok |-> FALSE, log |-> a.log]
    ELSE CHOOSE out \in
      {IF ~w.ok THEN [ok |-> FALSE, log |-> w.log]
       ELSE write_blocks(env, w.log, uid, encoded, index + BLOCK_SIZE,
                         NextBlock(current_block)) :
         w \in {write_mifare_classic_block_(env, a.log, current_block,
                   BlockSlice(encoded, index, env.junk))}} : TRUE

\* variant of write_blocks: only the first block of the loop is authenticated
write_blocks_auth_once(env, log, uid, encoded, index, current_block) ==
    IF index >= Len(encoded) THEN [ok |-> TRUE, log |-> log]
    ELSE CHOOSE out \in
      {write_block_at(env, a, uid, encoded, index, current_block) :
         a \in {IF index = 0
                THEN auth_mifare_classic_block_(env, log, uid, current_block,
                                                "A_NDEF")
                ELSE [ok |-> TRUE, log |-> log]}} : TRUE

\* the first failed authentication or write ends the loop
write_blocks(env, log, uid, encoded, index, current_block) ==
    IF index >= Len(encoded) THEN [ok |-> TRUE, log |-> log]
    ELSE CHOOSE out \in
      {write_block_at(env, a, uid, encoded, index, current_block) :
         a \in {IF mifare_classic_is_first_block(current_block)
                THEN auth_mifare_classic_block_(env, log, uid, current_block,
                                                "A_NDEF")
                ELSE [ok |-> TRUE, log |-> log]}} : TRUE

\* PN532::write_tag_
write_tag_(env, log, uid, message) ==
    CHOOSE out \in
      {write_blocks(env, log, uid, e, 0, FIRST_DATA_BLOCK) :
         e \in {write_tag_buffer(encode(message))}} : TRUE

\* PN532::write_mifare_classic_tag_
write_mifare_classic_tag_(env, log, uid, message) ==
    CHOOSE out \in
      {write_blocks(env, log, uid, e, 0, FIRST_DATA_BLOCK) :
         e \in {write_mifare_classic_tag_buffer(encode(message))}} : TRUE

\* PN532::erase_tag_
erase_tag_(env, log, uid) == write_tag_(env, log, uid, EmptyRecordMsg)

\* ------------------------------------------------------- detection inputs
U1 == <<4, 1, 2, 3>>
U2 == <<4, 1, 2, 9>>
U3 == <<5, 6, 7, 8>>
U7 == <<4, 1, 2, 3, 4, 5, 6>>
Uids == {U1, U2, U3, U7}

\* payload of an InListPassiveTarget response: target count, target number,
\* SENS_RES (2), SEL_RES, NFCID length, NFCID
DetectPayload(num_targets, nfcid_length, nfcid) ==
    <<num_targets, 1, 0, 4, 8, nfcid_length>> \o nfcid

\* what read_response_ hands to loop(): failure, no target, two targets,
\* one target with each UID, and a payload shorter than its declared UID
Responses ==
    {[ok |-> FALSE, read |-> <<>>], [ok |-> TRUE, read |-> <<0>>],
     [ok |-> TRUE, read |-> DetectPayload(2, 4, U1)],
     [ok |-> TRUE, read |-> DetectPayload(1, 7, U1)]}
    \cup {[ok |-> TRUE, read |-> DetectPayload(1, Len(u), u)] : u \in Uids}

\* tags presented: blank data blocks, or a TLV envelope around a message
TagImages == {<<>>, NdefImage(encode(Msg(50, 1)))}
JunkBytes == {0, 170}
WriteMsgs == {NullMsg, Msg(20, 32)}

\* ---------------------------------------------------------- detection loop
\* variant of same_uid: the comparison inverted
same_uid_inverted(nfcid, cur) == \E i \in 1..Len(nfcid) : nfcid[i] # cur[i]

\* the debounce of loop(): same length and same_uid, where same_uid is the
\* OR over all positions of nfcid[i] == current_uid_[i]
same_uid(nfcid, cur) == \E i \in 1..Len(nfcid) : nfcid[i] = cur[i]
suppressed(nfcid, cur) == Len(nfcid) = Len(cur) /\ same_uid(nfcid, cur)

NoTag == BareTag(<<>>)

\* the WRITE branch of loop() for a tag without an NDEF message: format,
\* and return early from loop() when that fails
format_then_write(env, log, uid, message) ==
    CHOOSE out \in
      {IF ~f.ok
       THEN [log |-> f.log, ran |-> <<"format_tag_">>, fired |-> FALSE,
             ok |-> FALSE, early |-> TRUE]
       ELSE CHOOSE o1 \in
         {[log |-> w.log, ran |-> <<"format_tag_", "write_tag_">>,
           fired |-> FALSE, ok |-> w.ok, early |-> FALSE] :
            w \in {write_tag_(env, f.log, uid, message)}} : TRUE :
         f \in {format_tag_(env, log, uid)}} : TRUE

\* what one lifecycle routine did, as the dispatch records it
Ran(name, r) ==
    [log |-> r.log, ran |-> <<name>>, fired |-> FALSE, ok |-> r.ok,
     early |-> FALSE]

\* variant of run_task: every task is handled as READ
run_task_read_only(env, log, uid, task, message, tag) ==
    [log |-> log, ran |-> <<>>, fired |-> TRUE, ok |-> TRUE, early |-> FALSE]

\* the dispatch of loop() on next_task_ after read_tag_:
\* [log, ran, fired, ok, early]; READ fires the triggers; early is the return
\* after a failed format that precedes a write
run_task(env, log, uid, task, message, tag) ==
    CASE task = "READ" ->
           [log |-> log, ran |-> <<>>, fired |-> TRUE, ok |-> TRUE,
            early |-> FALSE]
      [] task = "CLEAN" ->
           CHOOSE out \in
             {Ran("clean_tag_", r) : r \in {clean_tag_(env, log, uid)}} : TRUE
      [] task = "FORMAT" ->
           CHOOSE out \in
             {Ran("format_tag_", r) : r \in {format_tag_(env, log, uid)}} : TRUE
      [] task = "ERASE" ->
           CHOOSE out \in
             {Ran("erase_tag_", r) : r \in {erase_tag_(env, log, uid)}} : TRUE
      [] task = "WRITE" ->
           IF message.kind = "null"
           THEN [log |-> log, ran |-> <<>>, fired |-> FALSE, ok |-> TRUE,
                 early |-> FALSE]
           ELSE IF tag.has_ndef
           THEN CHOOSE out \in
                  {Ran("write_tag_", w) :
                     w \in {write_tag_(env, log, uid, message)}} : TRUE
           ELSE format_then_write(env, log, uid, message)

\* variant of loop_no_target: the last UID is kept
loop_no_target_keep(env, cur) == [uid |-> cur, log |-> turn_off_rf_(env, <<>>)]

\* loop() when the response could not be read or reports a target count
\* other than 1: last UID cleared, RF field off; [uid, log]
loop_no_target(env, cur) == [uid |-> <<>>, log |-> turn_off_rf_(env, <<>>)]

\* the end of loop() after the dispatch: next_task_ goes back to READ unless
\* the task is continuous (or loop() returned early), RF field off
loop_finish(env, nfcid, task, continuous, t, r) ==
    [uid |-> nfcid,
     task |-> IF r.early \/ continuous THEN task ELSE "READ",
     log |-> turn_off_rf_(env, r.log),
     tag |-> t.tag, ran |-> <<"read_tag_">> \o r.ran, fired |-> r.fired,
     ok |-> r.ok]

\* loop() for a UID that is not suppressed: current_uid_ updated, read_tag_,
\* the dispatch; [uid, task, log, tag, ran, fired, ok]
loop_process(env, nfcid, task, continuous, message) ==
    CHOOSE out \in
      {CHOOSE o1 \in
         {loop_finish(env, nfcid, task, continuous, t, r) :
            r \in {run_task(env, t.log, nfcid, task, message, t.tag)}} : TRUE :
         t \in {read_tag_(env, <<>>, nfcid)}} : TRUE

\* the rest of loop() once the NFCID is taken from the response
loop_uid(env, nfcid, cur, task, continuous, message) ==
    IF suppressed(nfcid, cur)
    THEN [path |-> "suppressed", nfcid |-> nfcid, uid |-> cur, task |-> task,
          log |-> <<>>, tag |-> NoTag, ran |-> <<>>, fired |-> FALSE,
          ok |-> TRUE]
    ELSE CHOOSE out \in
      {[path |-> "processed", nfcid |-> nfcid, uid |-> p.uid,
        task |-> p.task, log |-> p.log, tag |-> p.tag, ran |-> p.ran,
        fired |-> p.fired, ok |-> p.ok] :
         p \in {loop_process(env, nfcid, task, continuous, message)}} : TRUE

\* PN532::loop with requested_read_ set, for the response rsp:
\* [path, nfcid, uid, task, log, tag, ran, fired, ok]
loop_tick(env, rsp, cur, task, continuous, message) ==
    LET quiet == [path |-> "", nfcid |-> <<>>, uid |-> cur, task |-> task,
                  log |-> <<>>, tag |-> NoTag, ran |-> <<>>,
                  fired |-> FALSE, ok |-> TRUE]
        f == loop_no_target(env, cur)
    IN
    IF ~rsp.ok
    THEN [quiet EXCEPT !.path = "failed", !.uid = f.uid, !.log = f.log]
    ELSE IF rsp.read[1] # 1
    THEN [quiet EXCEPT !.path = "notarget", !.uid = f.uid, !.log = f.log]
    ELSE IF Len(rsp.read) < 6 + rsp.read[6]
    THEN [quiet EXCEPT !.path = "short"]
    ELSE loop_uid(env, SubSeq(rsp.read, 7, 6 + rsp.read[6]), cur, task,
                  continuous, message)

\* ------------------------------------------------------------------ state
\* the history record of a handler
\* of loop() with requested_read_ set: what it found before it ran (pre_*),
\* the path it took, what it ran and every command it sent
Record(path, nfcid, log, tag, ran, fired, ok) ==
    [op |-> "loop", path |-> path, nfcid |-> nfcid,
     pre_uid |-> current_uid_, pre_task |-> next_task_,
     pre_cont |-> next_task_continuous_, pre_armed |-> armed,
     pre_detected |-> detected, pre_since_clear |-> since_clear,
     pre_request |-> request,
     xlog |-> log, tag |-> tag, ran |-> ran, fired |-> fired, ok |-> ok]

\* no caller's request is waiting for a detection
NoRequest == [set |-> FALSE, task |-> "READ", continuous |-> FALSE]

\* of any other handler: its name, the commands it sent and its result
Quiet(op, log, ok) ==
    [op |-> op, path |-> "", nfcid |-> <<>>, pre_uid |-> <<>>,
     pre_task |-> "READ", pre_cont |-> FALSE, pre_armed |-> FALSE,
     pre_detected |-> <<>>, pre_since_clear |-> FALSE,
     pre_request |-> NoRequest,
     xlog |-> log, tag |-> NoTag, ran |-> <<>>, fired |-> FALSE, ok |-> ok]

Init ==
    /\ current_uid_ = <<>>
    /\ next_task_ = "READ"
    /\ next_task_continuous_ = FALSE
    /\ next_task_message_to_write_ = NullMsg
    /\ requested_read_ = FALSE
    /\ status_warning = FALSE
    /\ resp_pending = FALSE
    /\ component_state = "constructed"
    /\ armed = FALSE
    /\ detected = <<>>
    /\ since_clear = FALSE
    /\ request = NoRequest
    /\ last = Quiet("init", <<>>, TRUE)

Env(orc, img, junk) ==
    [orc |-> orc, p0 |-> resp_pending, img |-> img, junk |-> junk]

LogPending(p0, log) == IF log = <<>> THEN p0 ELSE log[Len(log)].after

\* the three command/response exchanges of setup(): version, wake-up, SAM
RECURSIVE setup_exchanges(_, _, _)
setup_exchanges(env, log, k) ==
    IF k = 0 THEN [ok |-> TRUE, log |-> log]
    ELSE CHOOSE out \in
      {IF LastRes(l) \in {"nosend", "noresp"} THEN [ok |-> FALSE, log |-> l]
       ELSE setup_exchanges(env, l, k - 1) :
         l \in {Exchange(env, log, "setup", 0, "", <<>>)}} : TRUE

\* PN532::setup
setup ==
    /\ component_state = "constructed"
    /\ \E orc \in Oracles :
         \E r \in {setup_exchanges(Env(orc, <<>>, 0), <<>>, 3)} :
           \E l \in {IF r.ok THEN turn_off_rf_(Env(orc, <<>>, 0), r.log)
                      ELSE r.log} :
             /\ component_state' = IF r.ok THEN "ready" ELSE "failed"
             /\ resp_pending' = LogPending(resp_pending, l)
             /\ last' = Quiet("setup", l, r.ok)
    /\ UNCHANGED <<current_uid_, next_task_, next_task_continuous_,
                   next_task_message_to_write_, requested_read_,
                   status_warning, armed, detected, since_clear, request>>

\* variant of update: requested_read_ is set whether or not the command
\* was acknowledged
update_always_requests ==
    /\ component_state = "ready"
    /\ \E sent \in BOOLEAN :
         \E l \in {Exchange(Env([fails |-> IF sent THEN {} ELSE {1},
                                  kind |-> "nosend"], <<>>, 0),
                             <<>>, "detect", 0, "", <<>>)} :
             /\ status_warning' = ~sent
             /\ requested_read_' = TRUE
             /\ resp_pending' = LogPending(resp_pending, l)
             /\ last' = Quiet("update", l, sent)
    /\ UNCHANGED <<current_uid_, next_task_, next_task_continuous_,
                   next_task_message_to_write_, component_state, armed,
                   detected, since_clear, request>>

\* PN532::update
update ==
    /\ component_state = "ready"
    /\ \E sent \in BOOLEAN :
         \E l \in {Exchange(Env([fails |-> IF sent THEN {} ELSE {1},
                                  kind |-> "nosend"], <<>>, 0),
                             <<>>, "detect", 0, "", <<>>)} :
             /\ status_warning' = ~sent
             /\ requested_read_' = (sent \/ requested_read_)
             /\ resp_pending' = LogPending(resp_pending, l)
             /\ last' = Quiet("update", l, sent)
    /\ UNCHANGED <<current_uid_, next_task_, next_task_continuous_,
                   next_task_message_to_write_, component_state, armed,
                   detected, since_clear, request>>

\* a tag is in the field when the response reports one target and its NFCID
HasTag(rsp) ==
    rsp.ok /\ rsp.read[1] = 1 /\ Len(rsp.read) >= 6 + rsp.read[6]

\* read_response_ at the start of loop(): a response that is read leaves
\* nothing pending on the link
LoopEnv(rsp, orc, img, junk) ==
    [orc |-> orc, p0 |-> IF rsp.ok THEN FALSE ELSE resp_pending, img |-> img,
     junk |-> junk]

\* PN532::loop
loop ==
    /\ component_state = "ready"
    /\ IF ~requested_read_
       THEN /\ last' = Quiet("loop", <<>>, TRUE)
            /\ UNCHANGED <<current_uid_, next_task_, next_task_continuous_,
                           next_task_message_to_write_, requested_read_,
                           status_warning, resp_pending, component_state,
                           armed, detected, since_clear, request>>
       ELSE \E rsp \in Responses, orc \in Oracles :
            \E img \in (IF HasTag(rsp) THEN TagImages ELSE {<<>>}),
               junk \in (IF HasTag(rsp) /\ next_task_ \in {"ERASE", "WRITE"}
                         THEN JunkBytes ELSE {0}) :
              \E t \in {loop_tick(LoopEnv(rsp, orc, img, junk), rsp,
                                  current_uid_, next_task_,
                                  next_task_continuous_,
                                  next_task_message_to_write_)} :
                  /\ requested_read_' = FALSE
                  /\ current_uid_' = t.uid
                  /\ next_task_' = t.task
                  /\ resp_pending' =
                         LogPending(LoopEnv(rsp, orc, img, junk).p0, t.log)
                  /\ armed' = (armed /\ t.path \notin {"suppressed", "processed"})
                  /\ detected' = t.nfcid
                  /\ since_clear' =
                         CASE t.path \in {"failed", "notarget"} -> TRUE
                           [] t.path \in {"suppressed", "processed"} -> FALSE
                           [] OTHER -> since_clear
                  /\ request' = IF t.path = "processed" THEN NoRequest
                                 ELSE request
                  /\ last' = Record(t.path, t.nfcid, t.log, t.tag, t.ran,
                                    t.fired, t.ok)
                  /\ UNCHANGED <<next_task_continuous_,
                                 next_task_message_to_write_, status_warning,
                                 component_state>>

\* of a caller's request: what the reader held when it was made, and whether
\* it replaced a request for another task that was still waiting
Called(op, task) ==
    [pre_requested_read |-> requested_read_, pre_pending |-> resp_pending,
     over |-> request.set /\ request.task # task]
      @@ [Quiet(op, <<>>, TRUE) EXCEPT !.pre_uid = current_uid_]

\* variant of Arm: a request that is still waiting is not replaced
Arm_first_wins(op, task, continuous, message) ==
    /\ next_task_' = IF request.set THEN next_task_ ELSE task
    /\ next_task_continuous_' =
           IF request.set THEN next_task_continuous_ ELSE continuous
    /\ next_task_message_to_write_' = message
    /\ armed' = TRUE
    /\ request' = [set |-> TRUE, task |-> task, continuous |-> continuous]
    /\ last' = Called(op, task)
    /\ UNCHANGED <<current_uid_, requested_read_, status_warning,
                   resp_pending, component_state, detected, since_clear>>

\* the callers' requests: each only stores the task
Arm(op, task, continuous, message) ==
    /\ next_task_' = task
    /\ next_task_continuous_' = continuous
    /\ next_task_message_to_write_' = message
    /\ armed' = TRUE
    /\ request' = [set |-> TRUE, task |-> task, continuous |-> continuous]
    /\ last' = Called(op, task)
    /\ UNCHANGED <<current_uid_, requested_read_, status_warning,
                   resp_pending, component_state, detected, since_clear>>

\* PN532::clean_tag
clean_tag ==
    \E continuous \in BOOLEAN :
        Arm("clean_tag", "CLEAN", continuous, next_task_message_to_write_)

\* PN532::erase_tag
erase_tag ==
    \E continuous \in BOOLEAN :
        Arm("erase_tag", "ERASE", continuous, next_task_message_to_write_)

\* PN532::format_tag
format_tag ==
    \E continuous \in BOOLEAN :
        Arm("format_tag", "FORMAT", continuous, next_task_message_to_write_)

\* PN532::write_tag
write_tag ==
    \E continuous \in BOOLEAN, message \in WriteMsgs :
        Arm("write_tag", "WRITE", continuous, message)

Next ==
    \/ setup
    \/ update
    \/ loop
    \/ clean_tag
    \/ erase_tag
    \/ format_tag
    \/ write_tag

Spec == Init /\ [][Next]_vars

\* ------------------------------------------------- detection loop properties
\* a Tick B (loop() with a response awaited) that took the NFCID of one target
Detection == last.op = "loop" /\ last.path \in {"suppressed", "processed"}

\* the tick handed the UID on: last UID updated, read_tag_ and the dispatch ran
HandedOn ==
    /\ last.path = "processed"
    /\ current_uid_ = last.nfcid
    /\ Len(last.ran) >= 1 /\ last.ran[1] = "read_tag_"

\* the tick did nothing with the UID
Skipped ==
    /\ last.path = "suppressed"
    /\ last.xlog = <<>> /\ last.ran = <<>> /\ ~last.fired
    /\ current_uid_ = last.pre_uid
    /\ next_task_ = last.pre_task

\* C1: a detected UID of the same length as the last UID that differs from
\* it in some byte is not suppressed (last UID updated, the task dispatched);
\* suppression happens only when every byte equals.
C1_WholeUidCompared ==
    Detection =>
        /\ (Len(last.nfcid) = Len(last.pre_uid) /\ last.nfcid # last.pre_uid
              => HandedOn)
        /\ (last.path = "suppressed" => last.nfcid = last.pre_uid)

\* C2: the same UID detected in two consecutive detection cycles: the second
\* cycle runs no tag operation, fires no trigger and leaves the last UID and
\* the pending task unchanged.
C2_RepeatSuppressed ==
    (Detection /\ last.nfcid = last.pre_detected) => Skipped

C2_Witness ==
    /\ Detection /\ last.nfcid = last.pre_detected
    /\ last.path = "suppressed" /\ last.nfcid = U1 /\ current_uid_ = U1

\* C3: a Tick B whose response cannot be read or reports a target count other
\* than 1 clears the last UID, issues the RF-field-off command and leaves
\* requested_read_ false; the next UID detected after such a cycle is
\* processed, not suppressed.
C3_ClearedOnFailure ==
    /\ (last.op = "loop" /\ last.path \in {"failed", "notarget"})
          => /\ current_uid_ = <<>>
             /\ Len(last.xlog) = 1 /\ last.xlog[1].cmd = "rfoff"
             /\ ~requested_read_
    /\ (Detection /\ last.pre_since_clear) => HandedOn

C3_Witness ==
    /\ Detection /\ last.pre_since_clear /\ last.path = "processed"
    /\ last.nfcid = U1 /\ current_uid_ = U1

\* C4: after a Tick B that handed a UID on, the pending task is READ when the
\* continuous flag is unset and unchanged when it is set.
C4_TaskReset ==
    (last.op = "loop" /\ last.path = "processed")
        => next_task_ = IF last.pre_cont THEN last.pre_task ELSE "READ"

\* the routine of the task is among those the tick ran
TaskRan(task, ran) ==
    CASE task = "CLEAN" -> ran = <<"read_tag_", "clean_tag_">>
      [] task = "FORMAT" -> ran = <<"read_tag_", "format_tag_">>
      [] task = "ERASE" -> ran = <<"read_tag_", "erase_tag_">>
      [] task = "WRITE" -> Len(ran) >= 2 /\ ran[1] = "read_tag_"
                             /\ ran[2] \in {"format_tag_", "write_tag_"}
      [] OTHER -> FALSE

\* C5 as stated: the first Tick B after arming that takes a UID executes the
\* armed task, also when the UID is the last UID.
C5_ArmedTaskExecuted ==
    (Detection /\ last.pre_armed) => TaskRan(last.pre_task, last.ran)

\* C5: the first Tick B after arming that takes a UID executes the armed task
\* (a WRITE: one armed with a message) unless the debounce suppresses the UID,
\* as it does when the UID is the last UID: then nothing is run and the task
\* stays pending.
C5_ArmedTaskExecutedUnlessSuppressed ==
    (Detection /\ last.pre_armed) =>
        /\ (last.path = "processed"
              /\ ~(last.pre_task = "WRITE"
                     /\ next_task_message_to_write_.kind = "null")
              => TaskRan(last.pre_task, last.ran))
        /\ (last.nfcid = last.pre_uid => Skipped /\ last.pre_task # "READ")

C5_Witness ==
    /\ Detection /\ last.pre_armed /\ last.path = "suppressed"
    /\ last.nfcid = last.pre_uid /\ next_task_ = "ERASE"

\* C6: every command is sent on the link with no response of an earlier
\* command left unread.
C6_OneOutstanding ==
    \A i \in DOMAIN last.xlog : ~last.xlog[i].pend

SectorOf(block_num) == block_num \div 4

\* C7: after a failed authentication for a sector no read or write of a block
\* of that sector is issued until a later authentication for it succeeds.
C7_NoAccessAfterFailedAuth ==
    \A i, j \in DOMAIN last.xlog :
        ( /\ i < j
          /\ last.xlog[i].cmd = "auth" /\ last.xlog[i].res # "ok"
          /\ last.xlog[j].cmd \in {"read", "write"}
          /\ SectorOf(last.xlog[j].block) = SectorOf(last.xlog[i].block) )
        => \E k \in (i + 1)..(j - 1) :
              /\ last.xlog[k].cmd = "auth" /\ last.xlog[k].res = "ok"
              /\ SectorOf(last.xlog[k].block) = SectorOf(last.xlog[i].block)

\* --------------------------------------------------- write, then read back
\* A second specification: one message is written to an NDEF-formatted
\* MIFARE Classic tag by write_tag_ or by write_mifare_classic_tag_ and read
\* back by read_tag_, every exchange succeeding. The record of the run is
\* kept in last; the component's fields stay as constructed.
LongLens == {253, 254, 255, 256, 300}
RTMsgs == {Msg(n, 1) : n \in (0..MaxSmallLen) \cup LongLens}
RTUid == U1
WriteRoutines == {"write_tag_", "write_mifare_classic_tag_"}

NoFail == [fails |-> {}, kind |-> "nosend"]
RTEnv(img, junk) == [orc |-> NoFail, p0 |-> FALSE, img |-> img, junk |-> junk]

\* the data blocks of a tag that format_mifare_classic_ndef_ left
FormattedImage == EmptyNdefBlock

\* the block that holds the bytes 16d+1 .. 16d+16 of a tag image
BlockOfIndex(d) == FIRST_DATA_BLOCK + d + d \div 3

\* the exchanges of a log that wrote block_num on the tag
WritesOf(log, block_num) ==
    {i \in DOMAIN log : log[i].cmd = "write" /\ log[i].block = block_num
                          /\ log[i].res = "ok"}

SetMax(S) == CHOOSE x \in S : \A y \in S : y <= x

\* the tag image after the writes of a log: a block keeps the data of the
\* last write it accepted
TagAfter(img, log) ==
    LET top == SetMax({0} \cup {DataIndex(log[i].block) + 1 :
                          i \in {k \in DOMAIN log : log[k].cmd = "write"
                                   /\ log[k].block >= FIRST_DATA_BLOCK
                                   /\ ~mifare_classic_is_trailer_block(log[k].block)}})
        len == IF Len(img) > top * BLOCK_SIZE THEN Len(img) ELSE top * BLOCK_SIZE
    IN  [p \in 1..len |->
           LET W == WritesOf(log, BlockOfIndex((p - 1) \div BLOCK_SIZE))
           IN  IF W = {} THEN (IF p <= Len(img) THEN img[p] ELSE 0)
               ELSE log[SetMax(W)].data[((p - 1) % BLOCK_SIZE) + 1]]

RTRecord(op, routine, msg, junk, buffer, w, img, r) ==
    [op |-> op, routine |-> routine, msg |-> msg, junk |-> junk,
     buffer |-> buffer, wlog |-> w.log, ok |-> w.ok, img |-> img,
     tag |-> r.tag, rlog |-> r.log]

NoWrite == [ok |-> TRUE, log |-> <<>>]
NoRead == [tag |-> NoTag, log |-> <<>>]

InitRT ==
    /\ current_uid_ = <<>>
    /\ next_task_ = "READ"
    /\ next_task_continuous_ = FALSE
    /\ next_task_message_to_write_ = NullMsg
    /\ requested_read_ = FALSE
    /\ status_warning = FALSE
    /\ resp_pending = FALSE
    /\ component_state = "ready"
    /\ armed = FALSE
    /\ detected = <<>>
    /\ since_clear = FALSE
    /\ request = NoRequest
    /\ \E m \in RTMsgs :
         last = RTRecord("message", "", m, 0, <<>>, NoWrite, FormattedImage,
                         NoRead)

RTFrame ==
    UNCHANGED <<current_uid_, next_task_, next_task_continuous_,
                next_task_message_to_write_, requested_read_, status_warning,
                resp_pending, component_state, armed, detected, since_clear,
                request>>

\* write(uid, M) by either routine
rt_write ==
    /\ last.op = "message"
    /\ \E routine \in WriteRoutines, junk \in JunkBytes :
         \E w \in {IF routine = "write_tag_"
                   THEN write_tag_(RTEnv(last.img, junk), <<>>, RTUid, last.msg)
                   ELSE write_mifare_classic_tag_(RTEnv(last.img, junk), <<>>,
                                                  RTUid, last.msg)} :
           last' = RTRecord("written", routine, last.msg, junk,
                            IF routine = "write_tag_"
                            THEN write_tag_buffer(encode(last.msg))
                            ELSE write_mifare_classic_tag_buffer(encode(last.msg)),
                            w, TagAfter(last.img, w.log), NoRead)
    /\ RTFrame

\* read(uid) of the tag as the write left it
rt_read ==
    /\ last.op = "written"
    /\ decode_mifare_classic_tlv(BlockData(last.img, FIRST_DATA_BLOCK))
          .message_length <= MaxReadLen
    /\ \E r \in {read_tag_(RTEnv(last.img, 0), <<>>, RTUid)} :
         last' = [last EXCEPT !.op = "readback", !.tag = r.tag, !.rlog = r.log]
    /\ RTFrame

NextRT ==
    \/ rt_write
    \/ rt_read

SpecRT == InitRT /\ [][NextRT]_vars

IsPrefix(p, s) == Len(p) <= Len(s) /\ SubSeq(s, 1, Len(p)) = p

\* the <<block, data>> pairs of the exchanges cmd of a log, in order
RECURSIVE Blocks(_, _)
Blocks(log, cmd) ==
    IF log = <<>> THEN <<>>
    ELSE (IF log[1].cmd = cmd THEN <<<<log[1].block, log[1].data>>>> ELSE <<>>)
           \o Blocks(Tail(log), cmd)

\* the block numbers of the write exchanges of a log, in order
WrittenBlocks(log) == [i \in DOMAIN Blocks(log, "write") |-> Blocks(log, "write")[i][1]]

\* the first k data blocks 4, 5, 6, 8, 9, 10, 12, ...
DataBlocks(k) == [i \in 1..k |-> BlockOfIndex(i - 1)]

\* C8: the buffer cut into blocks is 0x03, the length field (the byte n for an
\* encoded size n < 255, else 0xFF and n as two big-endian bytes), the encoded
\* message and 0xFE.
C8_BufferLayout ==
    last.op = "written" => IsPrefix(NdefImage(encode(last.msg)), last.buffer)

\* C9: write_tag_ then read_tag_ with every exchange succeeding: the TLV
\* length at block 4 is the encoded size, the payload read starts with the
\* encoded message and the blocks read back are the blocks written, in order.
C9_RoundTrip ==
    (last.op = "readback" /\ last.routine = "write_tag_" /\ last.ok) =>
        /\ decode_mifare_classic_tlv(BlockData(last.img, FIRST_DATA_BLOCK))
              .message_length = Len(encode(last.msg))
        /\ last.tag.has_ndef
        /\ IsPrefix(encode(last.msg), last.tag.buffer)
        /\ Tail(Blocks(last.rlog, "read")) = Blocks(last.wlog, "write")

\* a completed write of the message whose encoded length is 300
Wrote300 ==
    last.op = "written" /\ Len(encode(last.msg)) = 300 /\ last.ok

LoopRoutines == {"read_tag_", "write_tag_"}
StepOracles ==
    {[fails |-> F, kind |-> k] : F \in {{}, {1}, {2}}, k \in FailKinds}

\* the exchanges of the iteration of the loop of routine at index, block
\* current_block: [ok, log]
loop_iteration(routine, orc, index, current_block) ==
    IF routine = "read_tag_"
    THEN CHOOSE out \in
           {[ok |-> TRUE, log |-> r.log] :
              r \in {read_blocks([RTEnv(<<>>, 0) EXCEPT !.orc = orc], <<>>, RTUid,
                                 index, index + BLOCK_SIZE, current_block,
                                 <<>>)}} : TRUE
    ELSE write_blocks([RTEnv(<<>>, 0) EXCEPT !.orc = orc], <<>>, RTUid,
                      Fill(index + BLOCK_SIZE, 0), index, current_block)

StepRecord(op, routine, index, current_block, log) ==
    [op |-> op, routine |-> routine, index |-> index,
     current_block |-> current_block, xlog |-> log]

InitAdvance ==
    /\ current_uid_ = <<>>
    /\ next_task_ = "READ"
    /\ next_task_continuous_ = FALSE
    /\ next_task_message_to_write_ = NullMsg
    /\ requested_read_ = FALSE
    /\ status_warning = FALSE
    /\ resp_pending = FALSE
    /\ component_state = "ready"
    /\ armed = FALSE
    /\ detected = <<>>
    /\ since_clear = FALSE
    /\ request = NoRequest
    /\ \E routine \in LoopRoutines :
         last = StepRecord("start", routine, 0, FIRST_DATA_BLOCK, <<>>)

\* one iteration: its exchanges, index += BLOCK_SIZE, the block advance; a
\* failed iteration of the write loop returns
block_step ==
    /\ last.op \in {"start", "step"}
    /\ last.index < MaxLoopBlocks * BLOCK_SIZE
    /\ \E orc \in StepOracles :
         \E it \in {loop_iteration(last.routine, orc, last.index,
                                   last.current_block)} :
           last' = IF it.ok
                   THEN StepRecord("step", last.routine,
                                   last.index + BLOCK_SIZE,
                                   NextBlock(last.current_block), it.log)
                   ELSE StepRecord("aborted", last.routine, last.index,
                                   last.current_block, it.log)
    /\ RTFrame

NextAdvance == block_step

SpecAdvance == InitAdvance /\ [][NextAdvance]_vars

\* C11: no read or write of a block loop targets a block number congruent to
\* 3 mod 4, and the block the loop stands at is never one, also after the
\* 8-bit block counter wrapped.
C11_NoTrailerBlock ==
    /\ last.current_block % 4 # 3
    /\ last.current_block = FIRST_DATA_BLOCK \/ last.op # "start"
    /\ \A i \in DOMAIN last.xlog :
          last.xlog[i].cmd \in {"read", "write"} => last.xlog[i].block % 4 # 3

\* the counter wrapped: the loop accessed block 0 at a late index
C11_Witness ==
    /\ last.op = "step" /\ last.index > 189 * BLOCK_SIZE
    /\ \E i \in DOMAIN last.xlog :
          last.xlog[i].cmd = "write" /\ last.xlog[i].block = 0

\* ------------------------------------------- lifecycle routines on their own
\* A fourth specification: one lifecycle routine is run once on a 4-byte-UID
\* tag, with any subset of its first MaxOpFailPos exchanges failing the same
\* way. The inputs and then the result are kept in last.
OpRoutines ==
    {"read_tag_", "read_mifare_classic_tag_", "write_tag_",
     "write_mifare_classic_tag_", "clean_tag_", "format_tag_"}
ReadRoutines == {"read_tag_", "read_mifare_classic_tag_"}
WriteOnlyRoutines == {"write_tag_", "write_mifare_classic_tag_"}

OpOracles ==
    {[fails |-> {}, kind |-> "nosend"]}
      \cup {[fails |-> F, kind |-> k] :
              F \in (SUBSET (1..MaxOpFailPos)) \ {{}}, k \in FailKinds}

OpImages == {<<>>, FormattedImage, NdefImage(encode(Msg(50, 1)))}
OpMsgs == {EmptyRecordMsg, Msg(50, 1)}

OpRecord(op, routine, orc, img, msg, junk, r) ==
    [op |-> op, routine |-> routine, orc |-> orc, img |-> img, msg |-> msg,
     junk |-> junk, xlog |-> r.log, ok |-> r.ok, tag |-> r.tag]

NoResult == [log |-> <<>>, ok |-> TRUE, tag |-> NoTag]

\* a routine's result as [log, ok, tag]
ReadResult(r) == [log |-> r.log, ok |-> TRUE, tag |-> r.tag]
BoolResult(r) == [log |-> r.log, ok |-> r.ok, tag |-> NoTag]

InitOps ==
    /\ current_uid_ = <<>>
    /\ next_task_ = "READ"
    /\ next_task_continuous_ = FALSE
    /\ next_task_message_to_write_ = NullMsg
    /\ requested_read_ = FALSE
    /\ status_warning = FALSE
    /\ resp_pending = FALSE
    /\ component_state = "ready"
    /\ armed = FALSE
    /\ detected = <<>>
    /\ since_clear = FALSE
    /\ request = NoRequest
    /\ \E routine \in OpRoutines, orc \in OpOracles :
         \E img \in (IF routine \in ReadRoutines THEN OpImages ELSE {<<>>}),
            msg \in (IF routine \in WriteOnlyRoutines THEN OpMsgs
                     ELSE {NullMsg}),
            junk \in (IF routine \in {"clean_tag_", "format_tag_",
                                      "write_mifare_classic_tag_"}
                      THEN {0} ELSE JunkBytes) :
           last = OpRecord("input", routine, orc, img, msg, junk, NoResult)

OpEnv == [orc |-> last.orc, p0 |-> FALSE, img |-> last.img, junk |-> last.junk]

OpDone(routine, r) ==
    /\ last.op = "input"
    /\ last.routine = routine
    /\ last' = OpRecord("done", routine, last.orc, last.img, last.msg,
                        last.junk, r)
    /\ RTFrame

op_read_tag_ ==
    \E r \in {read_tag_(OpEnv, <<>>, RTUid)} :
        OpDone("read_tag_", ReadResult(r))

op_read_mifare_classic_tag_ ==
    \E r \in {read_mifare_classic_tag_(OpEnv, <<>>, RTUid)} :
        OpDone("read_mifare_classic_tag_", ReadResult(r))

op_write_tag_ ==
    /\ last.routine = "write_tag_"
    /\ \E r \in {write_tag_(OpEnv, <<>>, RTUid, last.msg)} :
         OpDone("write_tag_", BoolResult(r))

op_write_mifare_classic_tag_ ==
    /\ last.routine = "write_mifare_classic_tag_"
    /\ \E r \in {write_mifare_classic_tag_(OpEnv, <<>>, RTUid, last.msg)} :
         OpDone("write_mifare_classic_tag_", BoolResult(r))

op_clean_tag_ ==
    \E r \in {clean_tag_(OpEnv, <<>>, RTUid)} :
        OpDone("clean_tag_", BoolResult(r))

op_format_tag_ ==
    \E r \in {format_tag_(OpEnv, <<>>, RTUid)} :
        OpDone("format_tag_", BoolResult(r))

NextOps ==
    \/ op_read_tag_
    \/ op_read_mifare_classic_tag_
    \/ op_write_tag_
    \/ op_write_mifare_classic_tag_
    \/ op_clean_tag_
    \/ op_format_tag_

SpecOps == InitOps /\ [][NextOps]_vars

\* a read routine ran
ReadDone == last.op = "done" /\ last.routine \in ReadRoutines

\* the TLV header of the tag's block 4
Block4Tlv == decode_mifare_classic_tlv(BlockData(last.img, FIRST_DATA_BLOCK))

\* C12: tag read on a MIFARE Classic UID, by read_tag_ and by
\* read_mifare_classic_tag_: (1) authentication of block 4 fails: a MIFARE
\* Classic tag without payload and no read; (2) block 4 authenticated and
\* read, TLV parsing fails: an ERROR tag; (3) TLV parsing succeeds: the block
\* loop runs and the tag carries a payload; and only a block that was read
\* is parsed.
C12_ReadOutcomes ==
    ReadDone =>
        /\ last.xlog[1].cmd = "auth" /\ last.xlog[1].block = FIRST_DATA_BLOCK
        /\ (last.xlog[1].res # "ok" =>
              /\ last.tag.type = "MIFARE_CLASSIC" /\ ~last.tag.has_ndef
              /\ Len(last.xlog) = 1)
        /\ (last.xlog[1].res = "ok" =>
              /\ Len(last.xlog) >= 2 /\ last.xlog[2].cmd = "read"
              /\ last.xlog[2].block = FIRST_DATA_BLOCK
              /\ (last.xlog[2].res = "ok" /\ ~Block4Tlv.ok =>
                    last.tag.type = "ERROR" /\ Len(last.xlog) = 2)
              /\ (last.xlog[2].res = "ok" /\ Block4Tlv.ok =>
                    /\ last.tag.type = "MIFARE_CLASSIC" /\ last.tag.has_ndef
                    /\ Len(last.xlog) > 2)
              /\ (last.tag.type = "ERROR" \/ last.tag.has_ndef =>
                    last.xlog[2].res = "ok"))

\* a write routine ran
WriteDone == last.op = "done" /\ last.routine \in WriteOnlyRoutines

\* the exchange failed for the accessor (write_mifare_classic_block_ does not
\* look at the status byte)
AccessorFailed(e) ==
    \/ e.cmd \in {"auth", "read"} /\ e.res # "ok"
    \/ e.cmd = "write" /\ e.res \in {"nosend", "noresp"}

FailedAt(log) == {i \in DOMAIN log : AccessorFailed(log[i])}

\* the buffer the routine cut into blocks, and the blocks it makes
WrittenBuffer ==
    IF last.routine = "write_tag_" THEN write_tag_buffer(encode(last.msg))
    ELSE write_mifare_classic_tag_buffer(encode(last.msg))

Segments(buffer, junk) ==
    [i \in 1..((Len(buffer) + BLOCK_SIZE - 1) \div BLOCK_SIZE) |->
        <<BlockOfIndex(i - 1), BlockSlice(buffer, (i - 1) * BLOCK_SIZE, junk)>>]

\* C13: tag write returns failure at the first failed authenticate or
\* write_block and issues no exchange after it; it returns success only when
\* every block of the buffer was written, in order.
C13_WriteAbortsOnFirstFailure ==
    WriteDone =>
        /\ \A i \in FailedAt(last.xlog) : i = Len(last.xlog)
        /\ last.ok <=> FailedAt(last.xlog) = {}
        /\ last.ok =>
              Blocks(last.xlog, "write") = Segments(WrittenBuffer, last.junk)

C13_Witness ==
    /\ WriteDone /\ ~last.ok /\ last.msg = Msg(50, 1)
    /\ Len(last.xlog) = 3 /\ last.xlog[3].cmd = "write"
    /\ last.xlog[2].res = "ok" /\ last.xlog[3].res = "noresp"

\* the data of a sequence of <<block, data>> pairs, joined in order
RECURSIVE Joined(_)
Joined(pairs) ==
    IF pairs = <<>> THEN <<>> ELSE pairs[1][2] \o Joined(Tail(pairs))

\* the TLV header the read routine decoded before its block loop
ParsedTlv ==
    IF last.routine = "read_tag_" THEN Block4Tlv
    ELSE decode_mifare_classic_tlv(FailedReadData(last.xlog[2].res, last.junk))

\* the exchanges of the block loop of a read (after authenticate and read of
\* block 4)
LoopLog == SubSeq(last.xlog, 3, Len(last.xlog))

\* C14: the block loop of tag read visits exactly buffer_size/16 blocks, each
\* once, whatever reads fail, and the buffer returned is the contents of the
\* blocks read successfully, in order, without the leading start-offset bytes.
C14_DegradedRead ==
    (ReadDone /\ last.tag.has_ndef) =>
        /\ [i \in DOMAIN Blocks(LoopLog, "read") |-> Blocks(LoopLog, "read")[i][1]]
             = DataBlocks(get_buffer_size(ParsedTlv.message_length) \div BLOCK_SIZE)
        /\ ~last.tag.ub
        /\ last.tag.buffer
             = Drop(Joined(Blocks(LoopLog, "read")), ParsedTlv.message_start_index)

\* the visits alone: every block of the loop is read once, in order
C14_EveryBlockVisitedOnce ==
    (ReadDone /\ last.tag.has_ndef) =>
        [i \in DOMAIN Blocks(LoopLog, "read") |-> Blocks(LoopLog, "read")[i][1]]
          = DataBlocks(get_buffer_size(ParsedTlv.message_length) \div BLOCK_SIZE)

\* read_tag_ with every read of the loop failing: nothing to erase from
C14_EmptyBuffer ==
    /\ ReadDone /\ last.routine = "read_tag_" /\ last.tag.has_ndef
    /\ Joined(Blocks(LoopLog, "read")) = <<>>
    /\ last.tag.ub

\* format_mifare_classic_mifare_ ran (clean_tag_ on a MIFARE Classic UID)
FactoryDone == last.op = "done" /\ last.routine = "clean_tag_"

\* the blocks format_mifare_classic_mifare_ writes in sector idx
SectorWrites(idx) ==
    IF idx = 0 THEN <<1, 2, 3>>
    ELSE <<4 * idx, 4 * idx + 1, 4 * idx + 2, 4 * idx + 3>>

\* the exchanges of log after position i up to the next authenticate
RECURSIVE UntilAuth(_, _)
UntilAuth(log, i) ==
    IF i >= Len(log) \/ log[i + 1].cmd = "auth" THEN <<>>
    ELSE <<log[i + 1]>> \o UntilAuth(log, i + 1)

\* C15: format_mifare_classic_mifare_ authenticates the trailer of each of
\* the 16 sectors in order whatever fails; a sector that does not authenticate
\* has no block written, an authenticated one has all its blocks written; the
\* result is false exactly when some write_block failed.
C15_FactoryFormatAllSectors ==
    FactoryDone =>
        /\ [i \in DOMAIN Blocks(last.xlog, "auth") |->
              Blocks(last.xlog, "auth")[i][1]]
             = [i \in 1..NUM_SECTORS |-> 4 * (i - 1) + 3]
        /\ \A i \in DOMAIN last.xlog :
              last.xlog[i].cmd = "auth" =>
                 [k \in DOMAIN UntilAuth(last.xlog, i) |->
                     <<UntilAuth(last.xlog, i)[k].cmd,
                       UntilAuth(last.xlog, i)[k].block>>]
                   = IF last.xlog[i].res # "ok" THEN <<>>
                     ELSE [k \in DOMAIN SectorWrites(last.xlog[i].block \div 4) |->
                             <<"write", SectorWrites(last.xlog[i].block \div 4)[k]>>]
        /\ last.ok <=>
              ~\E i \in DOMAIN last.xlog :
                  last.xlog[i].cmd = "write" /\ AccessorFailed(last.xlog[i])

\* sectors 0 and 1 fail to authenticate, nothing else fails: the other 14
\* sectors are formatted and the result is true
C15_Witness ==
    /\ FactoryDone /\ last.ok
    /\ last.xlog[1].res # "ok" /\ last.xlog[2].res # "ok"
    /\ last.xlog[2].cmd = "auth" /\ last.xlog[2].block = 7
    /\ Len(last.xlog) = 2 + 14 * 5

\* the position of the last authenticate before position j of log (0: none)
LastAuthBefore(log, j) ==
    IF \E i \in 1..(j - 1) : log[i].cmd = "auth"
    THEN CHOOSE i \in 1..(j - 1) :
           /\ log[i].cmd = "auth"
           /\ \A k \in (i + 1)..(j - 1) : log[k].cmd # "auth"
    ELSE 0

\* C20: in every routine each read_block or write_block on block b comes
\* after an authenticate for a block of sector b div 4, with no authenticate
\* of another sector in between; in the read and write routines a block with
\* b mod 4 = 0 is accessed directly after an authenticate of that block.
C20_AuthenticatePerSector ==
    last.op = "done" =>
        \A j \in DOMAIN last.xlog :
            last.xlog[j].cmd \in {"read", "write"} =>
                /\ LastAuthBefore(last.xlog, j) # 0
                /\ SectorOf(last.xlog[LastAuthBefore(last.xlog, j)].block)
                     = SectorOf(last.xlog[j].block)
                /\ ( /\ last.routine \in ReadRoutines \cup WriteOnlyRoutines
                     /\ mifare_classic_is_first_block(last.xlog[j].block) )
                   => /\ last.xlog[j - 1].cmd = "auth"
                      /\ last.xlog[j - 1].block = last.xlog[j].block

\* a write that went into a second sector: blocks 4, 5, 6 and then 8, with
\* an authenticate of block 8 in front
C20_Witness ==
    /\ last.op = "done" /\ last.routine = "write_tag_" /\ last.ok
    /\ Len(last.xlog) = 6
    /\ last.xlog[5].cmd = "auth" /\ last.xlog[5].block = 8
    /\ last.xlog[6].cmd = "write" /\ last.xlog[6].block = 8

\* a caller's request was the handler that ran last
Requested == last.op \in {"clean_tag", "erase_tag", "format_tag", "write_tag"}

\* the routines a processed detection may run for a task, after read_tag_
RanFor(task) ==
    CASE task = "CLEAN" -> {<<"read_tag_", "clean_tag_">>}
      [] task = "FORMAT" -> {<<"read_tag_", "format_tag_">>}
      [] task = "ERASE" -> {<<"read_tag_", "erase_tag_">>}
      [] task = "WRITE" -> {<<"read_tag_">>, <<"read_tag_", "write_tag_">>,
                            <<"read_tag_", "format_tag_">>,
                            <<"read_tag_", "format_tag_", "write_tag_">>}
      [] OTHER -> {<<"read_tag_">>}

\* C16: the callers' requests are a one-slot mailbox where the last request
\* wins. While a request waits for a processed detection, next_task_ and
\* next_task_continuous_ are those of the latest call; a call sends nothing on
\* the link and leaves current_uid_, requested_read_ and the unread response
\* as they were; the next processed detection runs the routines of the latest
\* request only.
C16_LastRequestWins ==
    /\ request.set =>
          /\ next_task_ = request.task
          /\ next_task_continuous_ = request.continuous
    /\ Requested =>
          /\ last.xlog = <<>>
          /\ current_uid_ = last.pre_uid
          /\ requested_read_ = last.pre_requested_read
          /\ resp_pending = last.pre_pending
    /\ (last.op = "loop" /\ last.path = "processed" /\ last.pre_request.set) =>
          last.ran \in RanFor(last.pre_request.task)

\* a request for ERASE replaced one for another task, between an update()
\* and its loop()
C16_Witness ==
    /\ last.op = "erase_tag" /\ last.over
    /\ requested_read_
    /\ next_task_ = "ERASE" /\ request.task = "ERASE"

\* the replaced request is not run: a processed detection after it ran
\* erase_tag_
C16_LatestDispatched ==
    /\ last.op = "loop" /\ last.path = "processed" /\ last.pre_request.set
    /\ last.pre_request.task = "ERASE"
    /\ last.ran = <<"read_tag_", "erase_tag_">>
    /\ next_task_message_to_write_ # NullMsg

\* ---------------------------------------------------------- frame transport
\* A fifth specification: write_command_ and read_response_ on their own, on
\* the bytes of the link. The inputs and the result are kept in last.
ACK == <<0, 0, 255, 0, 255, 0>>
NACK == <<0, 0, 255, 255, 0, 0>>
TFI_TO_PN532 == 212
TFI_FROM_PN532 == 213

\* variant of Neg8: the one's complement
Neg8_ones_complement(x) == U8(255 - x)

\* ~x + 1 stored in a uint8_t
Neg8(x) == U8((255 - x) + 1)

\* checksum += dat over the bytes of s, on uint8_t
RECURSIVE Checksum(_, _)
Checksum(checksum, s) ==
    IF s = <<>> THEN checksum
    ELSE Checksum(U8(checksum + s[1]), Tail(s))

\* the frame write_command_ hands to write_data
write_command_frame(data) ==
    LET real_length == U8(Len(data) + 1)
    IN  <<0, 0, 255, real_length, Neg8(real_length), TFI_TO_PN532>> \o data
          \o <<Neg8(Checksum(TFI_TO_PN532, data)), 0>>

\* read_data(data, len): the transport fails, or hands over one leading byte
\* and the next len bytes of what the device sends (0 once it stops sending)
read_data(wire, len, lead, fails) ==
    [ok |-> ~fails,
     data |-> IF fails THEN <<>>
              ELSE <<lead>> \o [i \in 1..len |->
                                  IF i <= Len(wire) THEN wire[i] ELSE 0]]

\* PN532::read_ack_ (rd: the result of read_data(data, 6))
read_ack_(rd) == rd.ok /\ SubSeq(rd.data, 2, 7) = ACK

\* PN532::write_command_: the frame written and the result
write_command_(data, rd) ==
    [frame |-> write_command_frame(data), ok |-> read_ack_(rd)]

\* the test of preamble and start code in read_response_ and
\* read_response_length_: data[1], data[2], data[3] of the code
invalid_preamble(data) == data[2] # 0 /\ data[3] # 0 /\ data[4] # 255

\* PN532::read_response_length_ (rd: the result of read_data(data, 6)):
\* the length returned and whether the NACK frame was written
read_response_length_(rd) ==
    IF ~rd.ok THEN [len |-> 0, nack |-> FALSE]
    ELSE IF invalid_preamble(rd.data) THEN [len |-> 0, nack |-> FALSE]
    ELSE IF ~(U8(rd.data[5] + rd.data[6]) = 0 /\ rd.data[7] = TFI_FROM_PN532)
    THEN [len |-> 0, nack |-> FALSE]
    ELSE [len |-> IF rd.data[5] = 0 THEN 0 ELSE U8(rd.data[5] - 1),
          nack |-> TRUE]

\* variant of valid_checksum: the data checksum is not looked at
valid_checksum_any(body, len) == TRUE

\* read_response_: the data checksum over TFI, command and payload
valid_checksum(body, len) ==
    body[len + 2] = Neg8(Checksum(0, SubSeq(body, 1, len + 1)))

\* read_response_ once the length is known (rd: read_data(data, 6 + len + 2))
read_response_body(command, len, rd) ==
    IF ~rd.ok THEN [ok |-> FALSE, data |-> <<>>]
    ELSE IF invalid_preamble(rd.data) THEN [ok |-> FALSE, data |-> rd.data]
    ELSE IF ~( /\ U8(rd.data[5] + rd.data[6]) = 0
               /\ rd.data[7] = TFI_FROM_PN532
               /\ rd.data[8] = command + 1 )
    THEN [ok |-> FALSE, data |-> rd.data]
    ELSE LET body == Drop(rd.data, 6)
         IN  IF ~valid_checksum(body, len) THEN [ok |-> FALSE, data |-> body]
             ELSE IF body[len + 3] # 0 THEN [ok |-> FALSE, data |-> body]
             ELSE [ok |-> TRUE, data |-> SubSeq(body, 3, Len(body) - 2)]

\* PN532::read_response_: the device sends wire, and sends it again after
\* the NACK of the length probe; [ok, data, nack]
read_response_(command, wire, lead, fails) ==
    LET p == read_response_length_(read_data(wire, 6, lead, fails = "probe"))
    IN  IF p.len = 0 THEN [ok |-> FALSE, data |-> <<>>, nack |-> p.nack]
        ELSE LET r == read_response_body(command, p.len,
                        read_data(wire, 6 + p.len + 2, lead, fails = "full"))
             IN  [ok |-> r.ok, data |-> r.data, nack |-> p.nack]

\* the commands the component sends: version, SAM configuration, detection,
\* RF off, and authenticate, read and write of a block
FrameCommands ==
    {<<2>>, <<20, 1, 20, 1>>, <<20, 1, 255, 1>>, <<74, 1, 0>>, <<50, 1, 0>>}
      \cup {<<64, 1, 96, b>> \o Fill(6, 255) \o u : b \in {4, 63}, u \in Uids}
      \cup {<<64, 1, 97, b>> \o <<211, 247, 211, 247, 211, 247>> \o u :
              b \in {4, 8}, u \in Uids}
      \cup {<<64, 1, 48, b>> : b \in {4, 5, 254}}
      \cup {<<64, 1, 160, b>> \o Fill(BLOCK_SIZE, d) :
              b \in {1, 4}, d \in {0, 255, 170}}

\* what the device may send: the frame of a response, as the device builds it
ResponseFrame(command, payload) ==
    <<0, 0, 255, U8(Len(payload) + 2), U8(256 - U8(Len(payload) + 2)),
      TFI_FROM_PN532, command + 1>> \o payload
      \o <<U8(256 - Checksum(0, <<TFI_FROM_PN532, command + 1>> \o payload)),
           0>>

ResponseCommands == {2, 20, 64, 74}
ResponsePayloads ==
    {<<>>, <<0>>, <<20>>, <<50, 1, 6, 7>>, DetectPayload(1, 4, U1),
     <<0>> \o Fill(BLOCK_SIZE, 170)}

\* the bytes of a frame at the positions in pos changed by delta
Mutated(wire, pos, delta) ==
    [i \in DOMAIN wire |-> IF i \in pos THEN U8(wire[i] + delta) ELSE wire[i]]

\* positions changed: none, any of preamble and start code, or one other
MutatedPositions(wire) ==
    SUBSET {1, 2, 3} \cup {{i} : i \in 4..Len(wire)}
Deltas == {1, 128, 255}
LeadBytes == {0, 1}
ReadFailures == {"none", "probe", "full"}

\* what read_data(data, 6) returns for the acknowledgement
AckReads ==
    {[ok |-> FALSE, data |-> <<>>]}
      \cup {read_data(Mutated(ACK, pos, delta), 6, lead, FALSE) :
              pos \in {{}} \cup {{i} : i \in 1..6}, delta \in Deltas,
              lead \in LeadBytes}

InitFrame ==
    /\ current_uid_ = <<>>
    /\ next_task_ = "READ"
    /\ next_task_continuous_ = FALSE
    /\ next_task_message_to_write_ = NullMsg
    /\ requested_read_ = FALSE
    /\ status_warning = FALSE
    /\ resp_pending = FALSE
    /\ component_state = "ready"
    /\ armed = FALSE
    /\ detected = <<>>
    /\ since_clear = FALSE
    /\ request = NoRequest
    /\ last = [op |-> "idle"]

\* write_command_(data) with the acknowledgement read rd
frame_write_command_ ==
    /\ last.op = "idle"
    /\ \E data \in FrameCommands, rd \in AckReads :
         \E w \in {write_command_(data, rd)} :
            last' = [op |-> "write_command_", data |-> data, ack |-> rd,
                     frame |-> w.frame, ok |-> w.ok]
    /\ RTFrame

\* read_response_(command, data) with the device sending a response frame
\* for payload, some of its bytes changed
frame_read_response_ ==
    /\ last.op = "idle"
    /\ \E command \in ResponseCommands, payload \in ResponsePayloads,
          delta \in Deltas, lead \in LeadBytes, fails \in ReadFailures :
         \E pos \in MutatedPositions(ResponseFrame(command, payload)) :
           \E wire \in {Mutated(ResponseFrame(command, payload), pos, delta)} :
             \E r \in {read_response_(command, wire, lead, fails)} :
                last' = [op |-> "read_response_", command |-> command,
                         payload |-> payload, pos |-> pos, delta |-> delta,
                         wire |-> wire, lead |-> lead, fails |-> fails,
                         ok |-> r.ok, data |-> r.data, nack |-> r.nack]
    /\ RTFrame

NextFrame ==
    \/ frame_write_command_
    \/ frame_read_response_

SpecFrame == InitFrame /\ [][NextFrame]_vars

\* the sum of the bytes of s
RECURSIVE Sum(_)
Sum(s) == IF s = <<>> THEN 0 ELSE s[1] + Sum(Tail(s))

\* C17: a frame built by write_command_ for a payload P starts with 00 00 FF,
\* its length field is len(P) + 1, length plus length checksum is 0 mod 256,
\* the direction byte is D4, D4 plus the bytes of P plus the payload checksum
\* is 0 mod 256 and the last byte is 00; write_command_ returns success only
\* when the 6 bytes read back are 00 00 FF 00 FF 00.
C17_CommandFrame ==
    last.op = "write_command_" =>
        LET f == last.frame
            n == Len(last.data)
        IN  /\ Len(f) = n + 8
            /\ SubSeq(f, 1, 3) = <<0, 0, 255>>
            /\ f[4] = n + 1
            /\ (f[4] + f[5]) % 256 = 0
            /\ f[6] = 212
            /\ SubSeq(f, 7, n + 6) = last.data
            /\ (212 + Sum(last.data) + f[n + 7]) % 256 = 0
            /\ f[n + 8] = 0
            /\ last.ok <=> (last.ack.ok /\ SubSeq(last.ack.data, 2, 7)
                                             = <<0, 0, 255, 0, 255, 0>>)

\* an authenticate command, its bytes summing past 255, acknowledged
C17_Witness ==
    /\ last.op = "write_command_" /\ last.ok
    /\ Len(last.data) = 14 /\ last.data[3] = 96
    /\ Sum(last.data) > 1000

\* length, length checksum, payload checksum and postamble of a frame
GuardedPositions(wire) == {4, 5, Len(wire) - 1, Len(wire)}

\* C18: read_response_ returns exactly the payload of a well-formed response
\* frame for the expected command, and fails when one of the length, length
\* checksum, payload checksum or postamble bytes of the frame is changed.
C18_ResponseUnframed ==
    (last.op = "read_response_" /\ last.fails = "none") =>
        /\ last.pos = {} => (last.ok /\ last.data = last.payload)
        /\ (\E i \in GuardedPositions(last.wire) : last.pos = {i}) => ~last.ok

\* a detection response returned whole
C18_Witness ==
    /\ last.op = "read_response_" /\ last.fails = "none" /\ last.pos = {}
    /\ last.command = 74 /\ last.ok /\ last.data = DetectPayload(1, 4, U1)

\* a payload checksum off by one is refused
C18_ChecksumOffByOne ==
    /\ last.op = "read_response_" /\ last.fails = "none"
    /\ last.pos = {Len(last.wire) - 1} /\ last.delta = 1
    /\ last.nack /\ ~last.ok

\* C19: a frame with at least one wrong byte among preamble and start code
\* is refused by the length probe, which then writes no NACK, and by
\* read_response_, also when all its other fields are valid.
C19_PreambleChecked ==
    ( /\ last.op = "read_response_" /\ last.fails = "none"
      /\ last.pos # {} /\ last.pos \subseteq {1, 2, 3} )
        => ~last.ok /\ ~last.nack

\* with the three bytes all wrong the frame is refused
C19_AllThreeWrong ==
    ( /\ last.op = "read_response_" /\ last.fails = "none"
      /\ last.pos = {1, 2, 3} )
        => ~last.ok /\ ~last.nack

\* ------------------------------------------- detection cycle: RF field, flags
\* a Tick B that ran with requested_read_ set
TickB == last.op = "loop" /\ last.path # ""

\* the RF-field-off command is the last command the tick sent
RfOffLast ==
    last.xlog # <<>> /\ last.xlog[Len(last.xlog)].cmd = "rfoff"

\* C21: every Tick B that runs with requested_read_ set issues the
\* RF-field-off command before it returns, whatever path it takes; and a
\* response too short for its declared UID length leaves current_uid_ and
\* next_task_ unchanged.
C21_RfOffEveryCycle ==
    TickB =>
        /\ RfOffLast
        /\ last.path = "short" =>
              current_uid_ = last.pre_uid /\ next_task_ = last.pre_task

\* the paths of loop() that do end with turn_off_rf_
C21_RfOffWhenHandled ==
    (TickB /\ last.path \in {"failed", "notarget", "processed"}) => RfOffLast

\* the paths that return before it: nothing is sent, nothing is changed
C21_ReturnsWithoutRfOff ==
    (TickB /\ last.path \in {"short", "suppressed"}) =>
        /\ last.xlog = <<>>
        /\ current_uid_ = last.pre_uid /\ next_task_ = last.pre_task

\* what update() does to the flags: last'.ok is the result of write_command_
UpdateStep ==
    last'.op = "update" =>
        /\ Len(last'.xlog) = 1 /\ last'.xlog[1].cmd = "detect"
        /\ last'.ok <=> last'.xlog[1].res = "ok"
        /\ IF last'.ok
           THEN requested_read_' /\ ~status_warning'
           ELSE requested_read_' = requested_read_ /\ status_warning'

\* what loop() does to requested_read_
LoopStep ==
    last'.op = "loop" =>
        IF requested_read_
        THEN ~requested_read_'
        ELSE /\ last'.xlog = <<>>
             /\ UNCHANGED <<current_uid_, next_task_, next_task_continuous_,
                            next_task_message_to_write_, requested_read_,
                            status_warning, resp_pending, component_state>>

\* C22: update() sets requested_read_ and clears the warning when the
\* detection command is sent and acknowledged; when it is not, update() sets
\* the warning and does not set requested_read_. loop() with requested_read_
\* unset sends nothing and changes nothing; loop() with it set leaves it unset.
C22_AwaitingResponseFlag == [][UpdateStep /\ LoopStep]_vars

\* update() failed after a tag had been seen: warning set, no response awaited
C22_Witness ==
    /\ last.op = "update" /\ ~last.ok
    /\ status_warning /\ ~requested_read_
    /\ current_uid_ = U1

\* loop() ran with no response awaited, between a request and its detection
C22_IdleTick ==
    /\ last.op = "loop" /\ last.path = "" /\ last.xlog = <<>>
    /\ ~requested_read_ /\ request.set /\ status_warning


\* C23: for a detected UID that is not classified as MIFARE Classic a
\* detection cycle issues no authenticate, read_block or write_block whatever
\* the pending task: read yields a bare UID-only tag, and clean, format,
\* erase and write fail without touching the tag.
C23_NoAccessToOtherTags ==
    ( /\ last.op = "loop" /\ last.path = "processed"
      /\ guess_tag_type(Len(last.nfcid)) # "MIFARE_CLASSIC" )
        => /\ \A i \in DOMAIN last.xlog :
                 last.xlog[i].cmd \notin {"auth", "read", "write"}
           /\ last.tag = BareTag(last.nfcid)
           /\ Len(last.ran) > 1 => ~last.ok

\* what holds for every task but ERASE
C23_NoAccessUnlessErase ==
    ( /\ last.op = "loop" /\ last.path = "processed"
      /\ guess_tag_type(Len(last.nfcid)) # "MIFARE_CLASSIC"
      /\ last.pre_task # "ERASE" )
        => /\ \A i \in DOMAIN last.xlog :
                 last.xlog[i].cmd \notin {"auth", "read", "write"}
           /\ last.tag = BareTag(last.nfcid)
           /\ Len(last.ran) > 1 => ~last.ok

\* ERASE on a 7-byte UID: erase_tag_ authenticated block 4 and wrote it
C23_EraseWritesType2 ==
    /\ last.op = "loop" /\ last.path = "processed" /\ last.nfcid = U7
    /\ last.pre_task = "ERASE" /\ last.ran = <<"read_tag_", "erase_tag_">>
    /\ last.ok
    /\ \E i \in DOMAIN last.xlog :
          last.xlog[i].cmd = "write" /\ last.xlog[i].block = FIRST_DATA_BLOCK

====
